---- MODULE Spec2Model ----
(***************************************************************************)
(* The cooperative scheduler of greenhouse (src/greenhouse/scheduler.py):  *)
(* the simply-paused list, the timed-paused list, the to-run deque, the    *)
(* dispatch loop (mainloop), recurring timers and exception handlers.      *)
(*                                                                         *)
(* Greenlets are identities 1..MaxGlets; their order stands for the order  *)
(* Python 2 gives two greenlet objects when a (timestamp, greenlet) tuple  *)
(* comparison ties on the timestamp.  The clock is an integer.  A queue    *)
(* element is a greenlet together with the number of the call that put it  *)
(* there (id), which is history only: no model of the code reads it.       *)
(***************************************************************************)
EXTENDS Integers, Sequences, FiniteSets, TLC

\* ------------------------------------------------------------------ bounds
MaxGlets == 3
MaxTime == 3
MaxCalls == 3
MaxTimed == 2
MaxSecs == 1
MaxInterval == 2
MaxTimes == 2
MaxRegs == 2
MaxRefs == 3
MaxTimeout == 2
MaxWakes == 2
MaxWaiters == 2
MaxTokens == 3
MaxHeld == 2
PayloadLen == 5

None == 0
\* an absent record (no exception, no recurrence), an absent wake-time
Nil == [nil |-> TRUE]
NoTime == 0 - 1
\* the main greenlet, which imports the package and is the first greenlet
main == 1
Greenlets == 1..MaxGlets
\* the callables the program registers as exception handlers
Handlers == {1, 2}
ExcClasses == {"ValueError", "KeyError"}

VARIABLES
    time,                 \* time.time()
    timed_paused,         \* state.timed_paused: sorted list of <<unixtime, element>>
    paused,               \* state.paused
    to_run,               \* state.to_run
    awoken_from_events,   \* state.awoken_from_events
    waiting,              \* greenlets blocked in a Signal's wait()
    glets,                \* greenlet -> "free" | "new" | "suspended" | "running" | "dead"
    recargs,              \* greenlet -> args (tstamp, count) of run_and_schedule_one, or None
    rec,                  \* closure of schedule_recurring: interval, maxtimes, start, and the
                          \* starting_at argument as it was passed; or None
    running,              \* greenlet.getcurrent() when it is not the mainloop, else None
    rpc,                  \* position of the running greenlet in its body
    pc,                   \* position of the mainloop greenlet
    handlers,             \* _exception_handlers: weak references [h, reg], reg = registration number
    halive,               \* handlers whose referent is alive
    exc,                  \* sys.exc_info() of the failure being consumed, or None
    hidx,                 \* loop index of _consume_exception
    calls,                \* history: per queue element id, how it was enqueued
    log,                  \* history: ids of the elements dispatched, in order
    failure,              \* history: the triple the last failing greenlet raised
    regs,                 \* history: _exception_handlers when that failure arrived
    delivered,            \* history: handler invocations for that failure
    invoked,              \* history: invocations of the recurring target
    dmap,                 \* state.descriptormap[fd] of one fd: list of weak references [id, st]
    eventmap,             \* the event mask poll() reported for that fd
    pidx,                 \* index of the enumerate() in _hit_poller
    socks,                \* the list socks of _hit_poller
    ppc,                  \* position in _hit_poller's handling of the fd
    signalled,            \* history: the waiters whose Signals were set for the event
                          \* being handled, with the event
    op,                   \* the blocking operation in progress: name, timeout, start; or None
    opc,                  \* position of the task inside the operation
    phase,                \* connect: "sock" before its handshake, "hs" inside it
    tout,                 \* the _timeout object of the operation
    htout,                \* the _timeout object of do_handshake
    wev,                  \* arguments of the _wait_event in progress and where it returns to
    pend,                 \* the exception in flight while _wait_event's finally runs, or None
    result,               \* what the caller of the operation got, or None
    ohist,                \* history of the operation: wake-ups, time-outs, errors met
    registry,             \* Poller._registry of one fd: the items [token, mask]
    counter,              \* Poller._counter: the last token given out
    isset,                \* the flags of the socket's Signals _readable and _writable
    wt,                   \* per task: where it is in _wait_event ("idle", "waiting", or how
                          \* its wait ended: "woken", "timedout", "atonce", "raised"),
                          \* direction, token
    held,                 \* registrations made by direct calls of register()
    fired,                \* history: per Signal, a set/clear cycle has completed
    plast,                \* history: the last register() of a mask already registered, or None
    shared,               \* history: tokens that a no-op register() gave out again
    missed,               \* history: tasks with a token of their own that a readiness did not wake
    sent,                 \* the peer has written its payload
    arrived,              \* bytes of the payload the transport has delivered
    taken,                \* bytes the SSL object has read from the socket
    binds,                \* what each patched name is bound to: "orig" or "green"
    prior,                \* history: the bindings before the first enabling call, or None
    mlast,                \* history: the last call into monkeypatch.py and how it ended
    returned              \* history: the last scheduling call whose result the caller kept, or None

qvars == <<timed_paused, paused, to_run, awoken_from_events, waiting>>
gvars == <<glets, recargs, rec, running, rpc, pc>>
hvars == <<handlers, halive, exc, hidx, failure, regs, delivered>>
srest == <<qvars, gvars, hvars, calls, log, invoked>>
svars == <<time, srest>>
pvars == <<dmap, eventmap, pidx, socks, ppc, signalled>>
ovars == <<op, opc, phase, tout, htout, wev, pend, result, ohist>>
kvars == <<registry, counter, isset, wt, held, fired, plast, shared, missed>>
nvars == <<sent, arrived, taken>>
mvars == <<binds, prior, mlast>>
rvars == <<returned>>
iovars == <<pvars, ovars, kvars, nvars, mvars, rvars>>
vars == <<svars, iovars>>

\* ------------------------------------------------------------- sequences
Ids(q) == {q[i].id : i \in 1..Len(q)}
TimedIds(q) == {q[i][2].id : i \in 1..Len(q)}
Glets(q) == {q[i].g : i \in 1..Len(q)}
TimedGlets(q) == {q[i][2].g : i \in 1..Len(q)}
Pos(q, id) == CHOOSE i \in 1..Len(q) : q[i].id = id
LogPos(id) == CHOOSE i \in 1..Len(log) : log[i] = id
InLog(id) == \E i \in 1..Len(log) : log[i] = id

\* all orders in which a set can be iterated
RECURSIVE Orders(_)
Orders(S) ==
    IF S = {} THEN {<<>>}
    ELSE UNION {{<<x>> \o o : o \in Orders(S \ {x})} : x \in S}

\* ---------------------------------------------------------------- bisect
\* Python 2 tuple comparison of (unixtime, greenlet) pairs; None sorts
\* below every object, greenlets compare by identity.
TupleLE(a, b) == a[1] < b[1] \/ (a[1] = b[1] /\ a[2] <= b[2])

Key(x) == <<x[1], x[2].g>>

\* bisect.bisect (bisect_right) on a sorted list: the index after every
\* element that is <= key.
bisect(a, key) == Cardinality({i \in 1..Len(a) : TupleLE(Key(a[i]), key)})

\* bisect.insort (insort_right)
insort(a, x) ==
    LET i == bisect(a, Key(x))
    IN SubSeq(a, 1, i) \o <<x>> \o SubSeq(a, i + 1, Len(a))

\* ------------------------------------------------------------ greenlets
Referenced(g) ==
    \/ g \in Glets(to_run) \cup Glets(paused) \cup TimedGlets(timed_paused)
    \/ g \in awoken_from_events \cup waiting
    \/ g = running

\* an identity a newly created greenlet can get
Allocatable(g) ==
    \/ glets[g] = "free"
    \/ glets[g] = "dead" /\ ~Referenced(g)

\* a greenlet the caller can hold and pass as target
Existing(g) == glets[g] \notin {"free"} /\ recargs[g] = Nil

\* a target is a plain function or a greenlet
Function == MaxGlets + 1
Targets == {Function} \cup {g \in Greenlets : Existing(g)}
CanWrap == \E g \in Greenlets : Allocatable(g)
NewGlet == CHOOSE g \in Greenlets : Allocatable(g) /\ \A h \in Greenlets : Allocatable(h) => g <= h
ValidTarget(target) == target \in Targets /\ (target = Function => CanWrap)

\* isinstance(target, greenlet): glet = target, else glet = greenlet(target, state.mainloop)
GletOf(target) == IF target = Function THEN NewGlet ELSE target

wrap(target, args) ==
    /\ glets' = IF target = Function THEN [glets EXCEPT ![NewGlet] = "new"] ELSE glets
    /\ recargs' = IF target = Function THEN [recargs EXCEPT ![NewGlet] = args] ELSE recargs

\* ghost record of one enqueueing
Call(via, g, at) ==
    [via |-> via, g |-> g, at |-> at, fut |-> (at >= time),
     epoch |-> Len(log), ahead |-> Ids(to_run) \cup Ids(paused)]
NextId == Len(calls) + 1
Elem(g) == [g |-> g, id |-> NextId]

TypeOK ==
    /\ time \in 0..MaxTime
    /\ running \in Greenlets \cup {None}
    /\ pc \in {"top", "idle", "switched", "consume", "dead"}
    /\ \A g \in Greenlets : glets[g] \in {"free", "new", "suspended", "running", "dead"}

\* the descriptor registry before any descriptor is registered
PollerInit ==
    /\ dmap = <<>>
    /\ eventmap = {}
    /\ pidx = 1
    /\ socks = <<>>
    /\ ppc = "poll"
    /\ signalled = {}

\* no scheduling call has returned to a caller that kept the result
ReturnInit == returned = Nil

\* no blocking operation has been called
NoHist == [wakes |-> 0, attempts |-> 0, timedout |-> FALSE, failed |-> Nil,
           regerr |-> Nil, waited |-> FALSE, ended |-> NoTime, want |-> "none"]
OpInit ==
    /\ op = Nil
    /\ opc = "idle"
    /\ phase = "sock"
    /\ tout = Nil
    /\ htout = Nil
    /\ wev = Nil
    /\ pend = Nil
    /\ result = Nil
    /\ ohist = NoHist

\* a task that is not inside _wait_event
NoWait == [pc |-> "idle", write |-> FALSE, token |-> 0, rolled |-> FALSE]
\* the poller after construction, the Signals of the socket unset
WaitInit ==
    /\ registry = {}
    /\ counter = 0
    /\ isset = [e \in {"r", "w"} |-> FALSE]
    /\ wt = [w \in 1..MaxWaiters |-> NoWait]
    /\ held = {}
    /\ fired = [e \in {"r", "w"} |-> FALSE]
    /\ plast = Nil
    /\ shared = {}
    /\ missed = {}

\* nothing sent on the connection
NetInit ==
    /\ sent = FALSE
    /\ arrived = 0
    /\ taken = 0

\* the names monkeypatch.py rebinds: open and file in __builtin__,
\* socket.socket, thread.allocate_lock, threading.Event, Queue.Queue (one
\* name for each of thread() and threading(), which treat all theirs alike)
PatchedNames == {"open", "file", "socket", "allocate_lock", "Event", "Queue"}
\* after import: every name bound to the standard library's object
PatchInit ==
    /\ binds = [n \in PatchedNames |-> "orig"]
    /\ prior = Nil
    /\ mlast = Nil

IoInit == PollerInit /\ OpInit /\ WaitInit /\ NetInit /\ PatchInit /\ ReturnInit

\* the scheduler after import
SchedInit ==
    /\ time = 0
    /\ timed_paused = <<>>
    /\ paused = <<>>
    /\ to_run = <<>>
    /\ awoken_from_events = {}
    /\ waiting = {}
    /\ glets = [g \in Greenlets |-> IF g = main THEN "running" ELSE "free"]
    /\ recargs = [g \in Greenlets |-> Nil]
    /\ rec = Nil
    /\ running = main
    /\ rpc = "body"
    /\ pc = "switched"
    /\ handlers = <<>>
    /\ halive = Handlers
    /\ exc = Nil
    /\ hidx = 1
    /\ calls = <<>>
    /\ log = <<>>
    /\ failure = Nil
    /\ regs = <<>>
    /\ delivered = <<>>
    /\ invoked = <<>>

Init == SchedInit /\ IoInit


\* ------------------------------------------------- queue state as a value
Q == [to_run |-> to_run, timed_paused |-> timed_paused, paused |-> paused,
      awoken |-> awoken_from_events, waiting |-> waiting, calls |-> calls]

SetQ(s) ==
    /\ to_run' = s.to_run
    /\ timed_paused' = s.timed_paused
    /\ paused' = s.paused
    /\ awoken_from_events' = s.awoken
    /\ waiting' = s.waiting
    /\ calls' = s.calls

\* Signal.set(): the greenlets W blocked in wait() are put in awoken_from_events
Signal_set(s, W) ==
    [s EXCEPT !.awoken = @ \cup W, !.waiting = @ \ W]

\* state.to_run.extend(state.awoken_from_events); ...clear()
\* (order: the iteration order of the set)
ExtendAwoken(s, order) ==
    [s EXCEPT
        !.to_run = @ \o [i \in 1..Len(order) |->
                            [g |-> order[i], id |-> Len(s.calls) + i]],
        !.calls = @ \o [i \in 1..Len(order) |->
                            [via |-> "event", g |-> order[i], at |-> NoTime,
                             fut |-> FALSE, epoch |-> Len(log), ahead |-> {}]],
        !.awoken = {}]

\* _hit_poller: the poll reports events that fire the Signals the greenlets
\* in W wait on, then the awoken greenlets join to_run
_hit_poller(s, W, order) == ExtendAwoken(Signal_set(s, W), order)

\* mutant: an element whose wake-time is the clock's value counts as expired
ExpiredIndex_le(tp, now) == Cardinality({i \in 1..Len(tp) : tp[i][1] <= now})

\* mutant: every timed element counts as expired
ExpiredIndex_all(tp, now) == Len(tp)

\* index = bisect.bisect(state.timed_paused, (time.time(), None))
ExpiredIndex(tp, now) == bisect(tp, <<now, None>>)

\* mutant: the simply-paused elements are moved before the timed ones
_check_paused_simple_first(s, skip_simple) ==
    LET index == ExpiredIndex(s.timed_paused, time)
        s1 == IF skip_simple THEN s
              ELSE [s EXCEPT !.to_run = @ \o s.paused, !.paused = <<>>]
    IN [s1 EXCEPT
          !.to_run = @ \o [i \in 1..index |-> s.timed_paused[i][2]],
          !.timed_paused = SubSeq(@, index + 1, Len(@))]

\* mutant: the simply-paused elements are never moved to to_run
_check_paused_timed_only(s, skip_simple) ==
    LET index == ExpiredIndex(s.timed_paused, time)
    IN [s EXCEPT
          !.to_run = @ \o [i \in 1..index |-> s.timed_paused[i][2]],
          !.timed_paused = SubSeq(@, index + 1, Len(@))]

_check_paused(s, skip_simple) ==
    LET index == ExpiredIndex(s.timed_paused, time)
        s1 == [s EXCEPT
                 !.to_run = @ \o [i \in 1..index |-> s.timed_paused[i][2]],
                 !.timed_paused = SubSeq(@, index + 1, Len(@))]
    IN IF skip_simple THEN s1
       ELSE [s1 EXCEPT !.to_run = @ \o s.paused, !.paused = <<>>]

\* mutant: the new element goes to the front of state.paused
PausedAppend_front(q, e) == <<e>> \o q

\* state.paused.append(glet)
PausedAppend(q, e) == Append(q, e)

\* mutant: append() in place of appendleft()
ToRunAppendLeft_append(q, e) == Append(q, e)

\* state.to_run.appendleft(glet)
ToRunAppendLeft(q, e) == <<e>> \o q

\* mutant: append() in place of insort()
TimedInsort_append(tp, unixtime, e) == Append(tp, <<unixtime, e>>)

\* bisect.insort(state.timed_paused, (unixtime, glet))
TimedInsort(tp, unixtime, e) == insort(tp, <<unixtime, e>>)

\* ------------------------------------------------------------ the clock
Tick ==
    /\ time < MaxTime
    /\ time' = time + 1
    /\ UNCHANGED <<qvars, gvars, hvars, calls, log, invoked>>
    /\ UNCHANGED iovars

\* -------------------------------------------------- the running greenlet
InBody == pc = "switched" /\ running # None /\ rpc = "body"
CanCall == Len(calls) < MaxCalls
NumTimed == Cardinality({i \in 1..Len(calls) : calls[i].at # NoTime})
CanCallTimed == CanCall /\ NumTimed < MaxTimed

\* mainloop.switch() from the running greenlet
SwitchToMainloop(gl) ==
    /\ glets' = [gl EXCEPT ![running] = "suspended"]
    /\ running' = None
    /\ pc' = "top"

schedule(target) ==
    /\ InBody /\ CanCall
    /\ ValidTarget(target)
    /\ wrap(target, Nil)
    /\ paused' = PausedAppend(paused, Elem(GletOf(target)))
    /\ calls' = Append(calls, Call("schedule", GletOf(target), NoTime))
    /\ UNCHANGED <<time, timed_paused, to_run, awoken_from_events, waiting,
                   rec, running, rpc, pc, hvars, log, invoked>>
    /\ UNCHANGED iovars

schedule_at(unixtime, target) ==
    /\ InBody /\ CanCallTimed
    /\ ValidTarget(target)
    /\ wrap(target, Nil)
    /\ timed_paused' = TimedInsort(timed_paused, unixtime, Elem(GletOf(target)))
    /\ calls' = Append(calls, Call("schedule_at", GletOf(target), unixtime))
    /\ UNCHANGED <<time, paused, to_run, awoken_from_events, waiting,
                   rec, running, rpc, pc, hvars, log, invoked>>
    /\ UNCHANGED iovars

schedule_in(secs, target) == schedule_at(time + secs, target)

schedule_to_top(target) ==
    /\ InBody /\ CanCall
    /\ ValidTarget(target)
    /\ wrap(target, Nil)
    /\ to_run' = ToRunAppendLeft(to_run, Elem(GletOf(target)))
    /\ calls' = Append(calls, Call("schedule_to_top", GletOf(target), NoTime))
    /\ UNCHANGED <<time, timed_paused, paused, awoken_from_events, waiting,
                   rec, running, rpc, pc, hvars, log, invoked>>
    /\ UNCHANGED iovars

pause ==
    /\ InBody /\ CanCall
    /\ paused' = PausedAppend(paused, Elem(running))
    /\ calls' = Append(calls, Call("pause", running, NoTime))
    /\ SwitchToMainloop(glets)
    /\ UNCHANGED <<time, timed_paused, to_run, awoken_from_events, waiting,
                   recargs, rec, rpc, hvars, log, invoked>>
    /\ UNCHANGED iovars

pause_until(unixtime) ==
    /\ InBody /\ CanCallTimed
    /\ timed_paused' = TimedInsort(timed_paused, unixtime, Elem(running))
    /\ calls' = Append(calls, Call("pause_until", running, unixtime))
    /\ SwitchToMainloop(glets)
    /\ UNCHANGED <<time, paused, to_run, awoken_from_events, waiting,
                   recargs, rec, rpc, hvars, log, invoked>>
    /\ UNCHANGED iovars

pause_for(secs) == pause_until(time + secs)

\* Signal.wait() without timeout: block until the Signal is set
Signal_wait ==
    /\ InBody
    /\ waiting' = waiting \cup {running}
    /\ SwitchToMainloop(glets)
    /\ UNCHANGED <<time, timed_paused, paused, to_run, awoken_from_events,
                   recargs, rec, rpc, hvars, calls, log, invoked>>
    /\ UNCHANGED iovars

\* the running greenlet sets a Signal that the greenlets W wait on
Signal_set_by_task(W) ==
    /\ InBody
    /\ W # {} /\ W \subseteq waiting
    /\ Len(calls) + Cardinality(awoken_from_events \cup W) <= MaxCalls
    /\ SetQ(Signal_set(Q, W))
    /\ UNCHANGED <<time, gvars, hvars, log, invoked>>
    /\ UNCHANGED iovars

\* the entry action returns: the greenlet is dead, control goes to its parent
Finish ==
    /\ InBody
    /\ running # main
    /\ glets' = [glets EXCEPT ![running] = "dead"]
    /\ running' = None
    /\ pc' = "top"
    /\ UNCHANGED <<time, qvars, recargs, rec, rpc, hvars, calls, log, invoked>>
    /\ UNCHANGED iovars

\* ------------------------------------------------------------- mainloop
PollWakes(W) ==
    /\ W \subseteq waiting
    /\ W # {} => Len(calls) + Cardinality(awoken_from_events \cup W) <= MaxCalls

AfterRefill(s) == IF s.to_run = <<>> THEN "idle" ELSE "top"

\* lines 203-205: if not state.to_run: _hit_poller(FAST); _check_paused()
mainloop_refill ==
    /\ pc = "top" /\ to_run = <<>>
    /\ \E W \in SUBSET waiting :
         /\ PollWakes(W)
         /\ \E order \in Orders(awoken_from_events \cup W) :
              LET s == _check_paused(_hit_poller(Q, W, order), FALSE)
              IN SetQ(s) /\ pc' = AfterRefill(s)
    /\ UNCHANGED <<time, glets, recargs, rec, running, rpc, hvars, log, invoked>>
    /\ UNCHANGED iovars

\* lines 207-215: one iteration of: while not state.to_run
mainloop_wait ==
    /\ pc = "idle"
    /\ \E W \in SUBSET waiting :
         /\ PollWakes(W)
         /\ \E order \in Orders(awoken_from_events \cup W) :
              LET s == IF timed_paused # <<>>
                       THEN _check_paused(_hit_poller(Q, W, order), TRUE)
                       ELSE _hit_poller(Q, W, order)
              IN SetQ(s) /\ pc' = AfterRefill(s)
    /\ UNCHANGED <<time, glets, recargs, rec, running, rpc, hvars, log, invoked>>
    /\ UNCHANGED iovars

\* mutant: pop() in place of popleft()
PopLeft_pop(q) == [e |-> q[Len(q)], rest |-> SubSeq(q, 1, Len(q) - 1)]

\* state.to_run.popleft()
PopLeft(q) == [e |-> Head(q), rest |-> Tail(q)]

\* line 217: state.to_run.popleft().switch()
mainloop_switch ==
    /\ pc = "top" /\ to_run # <<>>
    /\ LET e == PopLeft(to_run).e IN
         /\ to_run' = PopLeft(to_run).rest
         /\ log' = Append(log, e.id)
         /\ IF glets[e.g] = "dead"
            THEN UNCHANGED <<glets, running, rpc, pc>>
            ELSE /\ glets' = [glets EXCEPT ![e.g] = "running"]
                 /\ running' = e.g
                 /\ rpc' = IF recargs[e.g] = Nil THEN "body" ELSE "rec"
                 /\ pc' = "switched"
    /\ UNCHANGED <<time, timed_paused, paused, awoken_from_events, waiting,
                   recargs, rec, hvars, calls, invoked>>
    /\ UNCHANGED iovars

\* ------------------------------------------------- exception containment
\* mutant: the test inverted, weak() is not None
IsBad_inverted(weak) == weak.h \in halive

\* bad = [i for i, weak in enumerate(_exception_handlers) if weak() is None]
IsBad(weak) == weak.h \notin halive

\* _purge_exception_handlers: pop the bad indexes, last first
_purge_exception_handlers(hs) == SelectSeq(hs, LAMBDA weak : ~IsBad(weak))

\* mutant: no except clause, the error leaves the mainloop
mainloop_except_propagates(info) == [pc |-> "dead", exc |-> info]

\* mainloop, lines 218-220: except Exception: _consume_exception(*sys.exc_info())
mainloop_except(info) == [pc |-> "consume", exc |-> info]

\* mutant: the handler's error is not squashed
handler_except_propagates(i) == [pc |-> "dead", hidx |-> i + 1]

\* _consume_exception, lines 229-232: except Exception: pass
handler_except(i) == [pc |-> "consume", hidx |-> i + 1]

\* where the mainloop is after the for loop of _consume_exception moved to index i
LoopAt(p, i, hs) == IF p = "consume" /\ i > Len(hs) THEN "top" ELSE p

\* an uncaught error leaves the running greenlet: it is dead, the error
\* reaches the mainloop at line 217 and _consume_exception starts
RaiseFrom(klass) ==
    LET info == [klass |-> klass, exc |-> Len(log), tb |-> running]
        caught == mainloop_except(info)
        purged == _purge_exception_handlers(handlers)
    IN /\ glets' = [glets EXCEPT ![running] = "dead"]
       /\ running' = None
       /\ failure' = info
       /\ regs' = handlers
       /\ delivered' = <<>>
       /\ exc' = caught.exc
       /\ handlers' = purged
       /\ hidx' = 1
       /\ pc' = LoopAt(caught.pc, 1, purged)

Raise(klass) ==
    /\ InBody
    /\ running # main
    /\ RaiseFrom(klass)
    /\ UNCHANGED <<time, qvars, recargs, rec, rpc, halive, calls, log, invoked>>
    /\ UNCHANGED iovars

\* one iteration of: for weak in _exception_handlers
consume_exception(raises) ==
    /\ pc = "consume"
    /\ hidx <= Len(handlers)
    /\ LET weak == handlers[hidx]
           called == weak.h \in halive
           after == IF raises \/ ~called
                    THEN handler_except(hidx)
                    ELSE [pc |-> "consume", hidx |-> hidx + 1]
       IN /\ called \/ raises    \* None(klass, exc, tb) raises TypeError
          /\ delivered' = IF called
                          THEN Append(delivered, [h |-> weak.h, reg |-> weak.reg,
                                                  info |-> exc, raised |-> raises])
                          ELSE delivered
          /\ hidx' = after.hidx
          /\ pc' = LoopAt(after.pc, after.hidx, handlers)
    /\ UNCHANGED <<time, qvars, glets, recargs, rec, running, rpc,
                   handlers, halive, exc, failure, regs, calls, log, invoked>>
    /\ UNCHANGED iovars

NumRegs == IF handlers = <<>> /\ regs = <<>> THEN 0
           ELSE LET all == {handlers[i].reg : i \in 1..Len(handlers)}
                             \cup {regs[i].reg : i \in 1..Len(regs)}
                IN CHOOSE m \in all : \A r \in all : r <= m

add_exception_handler(h) ==
    /\ InBody
    /\ h \in Handlers
    /\ h \in halive
    /\ NumRegs < MaxRegs
    /\ handlers' = Append(handlers, [h |-> h, reg |-> NumRegs + 1])
    /\ UNCHANGED <<time, qvars, gvars, halive, exc, hidx, failure, regs,
                   delivered, calls, log, invoked>>
    /\ UNCHANGED iovars

\* the last strong reference to a handler goes away
HandlerDies(h) ==
    /\ pc \in {"switched", "consume"}
    /\ h \in halive
    /\ halive' = halive \ {h}
    /\ UNCHANGED <<time, qvars, gvars, handlers, exc, hidx, failure, regs,
                   delivered, calls, log, invoked>>
    /\ UNCHANGED iovars

\* ------------------------------------------------------ schedule_recurring
\* starting_at = starting_at or time.time()
StartOf(starting_at, now) == IF starting_at # 0 THEN starting_at ELSE now

\* firstrun = starting_at + interval
FirstRun(start, interval) == start + interval

\* mutant: count <= maxtimes
RunsAgain_le(maxtimes, count) == maxtimes = 0 \/ count <= maxtimes

\* if not maxtimes or count < maxtimes
RunsAgain(maxtimes, count) == maxtimes = 0 \/ count < maxtimes

\* schedule_at(tstamp, run_and_schedule_one, args=(tstamp + interval, count + 1))
RearmAt(tstamp, interval) == tstamp
RearmArgs(tstamp, count, interval) == [tstamp |-> tstamp + interval, count |-> count + 1]

schedule_recurring(interval, maxtimes, starting_at) ==
    /\ InBody /\ CanCall
    /\ rec = Nil
    /\ CanWrap
    /\ LET start == StartOf(starting_at, time)
           firstrun == FirstRun(start, interval)
       IN /\ rec' = [interval |-> interval, maxtimes |-> maxtimes, start |-> start,
                     starting_at |-> starting_at]
          /\ wrap(Function, [tstamp |-> firstrun, count |-> 0])
          /\ timed_paused' = TimedInsort(timed_paused, firstrun, Elem(NewGlet))
          /\ calls' = Append(calls, Call("schedule_recurring", NewGlet, firstrun))
    /\ UNCHANGED <<time, paused, to_run, awoken_from_events, waiting,
                   running, rpc, pc, hvars, log, invoked>>
    /\ UNCHANGED iovars

InRec == pc = "switched" /\ running # None /\ rpc = "rec"

\* run_and_schedule_one: the test, and func(*args, **kwargs) when it passes
run_and_schedule_one(raises) ==
    /\ InRec
    /\ LET a == recargs[running] IN
       IF RunsAgain(rec.maxtimes, a.count)
       THEN /\ invoked' = Append(invoked, [armed |-> calls[log[Len(log)]].at,
                                           now |-> time, raised |-> raises])
            /\ IF raises
               THEN /\ RaiseFrom("ValueError")
                    /\ UNCHANGED rpc
               ELSE /\ rpc' = "rearm"
                    /\ UNCHANGED <<glets, running, pc, hvars>>
       ELSE /\ ~raises
            /\ glets' = [glets EXCEPT ![running] = "dead"]
            /\ running' = None
            /\ pc' = "top"
            /\ UNCHANGED <<rpc, hvars, invoked>>
    /\ UNCHANGED <<time, qvars, recargs, rec, halive, calls, log>>
    /\ UNCHANGED iovars

\* run_and_schedule_one after func returned: schedule_at(...), then the end
run_and_schedule_one_rearm ==
    /\ pc = "switched" /\ running # None /\ rpc = "rearm"
    /\ \E g \in Greenlets : g # running /\ Allocatable(g)
    /\ LET a == recargs[running]
           g == CHOOSE x \in Greenlets : /\ x # running /\ Allocatable(x)
                   /\ \A y \in Greenlets : (y # running /\ Allocatable(y)) => x <= y
           at == RearmAt(a.tstamp, rec.interval)
       IN /\ timed_paused' = TimedInsort(timed_paused, at, Elem(g))
          /\ calls' = Append(calls, Call("run_and_schedule_one", g, at))
          /\ glets' = [glets EXCEPT ![g] = "new", ![running] = "dead"]
          /\ recargs' = [recargs EXCEPT ![g] = RearmArgs(a.tstamp, a.count, rec.interval)]
    /\ running' = None
    /\ pc' = "top"
    /\ UNCHANGED <<time, paused, to_run, awoken_from_events, waiting, rec, rpc,
                   hvars, log, invoked>>
    /\ UNCHANGED iovars

\* ------------------------------------------------------- specifications
\* every operation, any caller
Next ==
    \/ Tick
    \/ \E target \in Targets : schedule(target)
    \/ \E target \in Targets, t \in 0..MaxTime : schedule_at(t, target)
    \/ \E target \in Targets, secs \in 0..MaxSecs : schedule_in(secs, target)
    \/ \E target \in Targets : schedule_to_top(target)
    \/ pause
    \/ \E t \in 0..MaxTime : pause_until(t)
    \/ \E secs \in 0..MaxSecs : pause_for(secs)
    \/ \E i \in 1..MaxInterval, n \in 0..MaxTimes, st \in 0..MaxTime : schedule_recurring(i, n, st)
    \/ \E h \in Handlers : add_exception_handler(h)
    \/ \E h \in Handlers : HandlerDies(h)
    \/ Signal_wait
    \/ \E W \in SUBSET waiting : Signal_set_by_task(W)
    \/ Finish
    \/ \E k \in ExcClasses : Raise(k)
    \/ \E r \in BOOLEAN : run_and_schedule_one(r)
    \/ run_and_schedule_one_rearm
    \/ \E r \in BOOLEAN : consume_exception(r)
    \/ mainloop_refill
    \/ mainloop_wait
    \/ mainloop_switch

Spec == Init /\ [][Next]_vars

\* the queues without the clock: schedule, schedule_to_top, pause
NextQueue ==
    \/ \E target \in Targets : schedule(target)
    \/ \E target \in Targets : schedule_to_top(target)
    \/ pause
    \/ Signal_wait
    \/ Finish
    \/ mainloop_refill
    \/ mainloop_wait
    \/ mainloop_switch
SpecQueue == Init /\ [][NextQueue]_vars

\* the timed-paused list under a running clock
NextTimed ==
    \/ Tick
    \/ \E target \in Targets : schedule(target)
    \/ \E target \in Targets, t \in 0..MaxTime : schedule_at(t, target)
    \/ \E target \in Targets, secs \in 0..MaxSecs : schedule_in(secs, target)
    \/ \E t \in 0..MaxTime : pause_until(t)
    \/ \E secs \in 0..MaxSecs : pause_for(secs)
    \/ Finish
    \/ mainloop_refill
    \/ mainloop_wait
    \/ mainloop_switch
SpecTimed == Init /\ [][NextTimed]_vars

\* one recurring timer; the main greenlet waits on a Signal
NextRecur ==
    \/ Tick
    \/ \E i \in 1..MaxInterval, n \in 0..MaxTimes, st \in 0..MaxTime : schedule_recurring(i, n, st)
    \/ Signal_wait
    \/ \E r \in BOOLEAN : run_and_schedule_one(r)
    \/ run_and_schedule_one_rearm
    \/ mainloop_refill
    \/ mainloop_wait
    \/ mainloop_switch
SpecRecur == Init /\ [][NextRecur]_vars
FairRecur == SpecRecur /\ WF_vars(NextRecur)

\* failing greenlets and exception handlers
NextExc ==
    \/ schedule(Function)
    \/ \E h \in Handlers : add_exception_handler(h)
    \/ \E h \in Handlers : HandlerDies(h)
    \/ (running = main /\ Signal_wait)
    \/ Finish
    \/ \E k \in ExcClasses : Raise(k)
    \/ \E r \in BOOLEAN : consume_exception(r)
    \/ mainloop_refill
    \/ mainloop_wait
    \/ mainloop_switch
SpecExc == Init /\ [][NextExc]_vars

\* the loop under failures, with one handler: the mainloop's steps
\* are taken as long as one is possible (while 1)
NextLoop ==
    \/ schedule(Function)
    \/ add_exception_handler(1)
    \/ HandlerDies(1)
    \/ (running = main /\ Signal_wait)
    \/ Finish
    \/ \E k \in ExcClasses : Raise(k)
    \/ \E r \in BOOLEAN : consume_exception(r)
    \/ mainloop_refill
    \/ mainloop_wait
    \/ mainloop_switch
SpecLoop == Init /\ [][NextLoop]_vars
FairLoop == SpecLoop /\ WF_vars(NextLoop)


\* ================================================= the descriptor registry
\* _hit_poller, lines 39-54: what the loop does with one (fd, eventmap) that
\* poll() returned.  A weak reference is [id, st]: st is "live", "closed"
\* (the socket's _closed flag is set) or "dead" (weak() is None).
RefStates == {"live", "closed", "dead"}
EventMasks == {{"IN"}, {"OUT"}, {"IN", "OUT"}}

\* the lists of at most n weak references, ids in list order
RefLists(n) ==
    UNION {{[i \in 1..k |-> [id |-> i, st |-> f[i]]] : f \in [1..k -> RefStates]} : k \in 0..n}

\* sock is None or sock._closed
IsGone(weak) == weak.st = "dead" \/ weak.st = "closed"

\* list.pop(index)
ListPop(l, i) == SubSeq(l, 1, i - 1) \o SubSeq(l, i + 1, Len(l))

\* the for statement asks the list iterator for the next item: it ends when
\* the index has reached the length the list has now
EnumerateAt(l, i) == IF i <= Len(l) THEN "enumerate" ELSE "signal"

\* for fd, eventmap in events: socks = []
hit_poller_event(mask) ==
    /\ ppc = "poll"
    /\ eventmap' = mask
    /\ socks' = <<>>
    /\ pidx' = 1
    /\ ppc' = EnumerateAt(dmap, 1)
    /\ signalled' = {}
    /\ UNCHANGED dmap
    /\ UNCHANGED svars
    /\ UNCHANGED <<ovars, kvars, nvars, mvars, rvars>>

\* one iteration of: for index, weak in enumerate(state.descriptormap[fd])
hit_poller_enumerate ==
    /\ ppc = "enumerate"
    /\ LET weak == dmap[pidx]
       IN IF IsGone(weak)
          THEN dmap' = ListPop(dmap, pidx) /\ socks' = socks
          ELSE dmap' = dmap /\ socks' = Append(socks, weak)
    /\ pidx' = pidx + 1
    /\ ppc' = EnumerateAt(dmap', pidx + 1)
    /\ UNCHANGED <<eventmap, signalled>>
    /\ UNCHANGED svars
    /\ UNCHANGED <<ovars, kvars, nvars, mvars, rvars>>

\* lines 47-54: for sock in socks: sock._readable.set() ... sock._writable.set()
hit_poller_signal ==
    /\ ppc = "signal"
    /\ signalled' = signalled \cup
           {[id |-> socks[i].id, st |-> socks[i].st, ev |-> e] :
                i \in 1..Len(socks), e \in eventmap}
    /\ ppc' = "done"
    /\ UNCHANGED <<dmap, eventmap, pidx, socks>>
    /\ UNCHANGED svars
    /\ UNCHANGED <<ovars, kvars, nvars, mvars, rvars>>

\* the loop goes on to its next poll
hit_poller_return ==
    /\ ppc = "done"
    /\ ppc' = "poll"
    /\ UNCHANGED <<dmap, eventmap, pidx, socks, signalled>>
    /\ UNCHANGED svars
    /\ UNCHANGED <<ovars, kvars, nvars, mvars, rvars>>

\* between two polls a socket is closed or garbage collected
WaiterGoes(i, st) ==
    /\ ppc = "poll"
    /\ i \in 1..Len(dmap)
    /\ dmap[i].st = "live"
    /\ st \in {"closed", "dead"}
    /\ dmap' = [dmap EXCEPT ![i].st = st]
    /\ UNCHANGED <<eventmap, pidx, socks, ppc, signalled>>
    /\ UNCHANGED svars
    /\ UNCHANGED <<ovars, kvars, nvars, mvars, rvars>>

\* any registry entry of at most MaxRefs references, any states
InitRegistry ==
    /\ SchedInit
    /\ dmap \in RefLists(MaxRefs)
    /\ eventmap = {}
    /\ pidx = 1
    /\ socks = <<>>
    /\ ppc = "poll"
    /\ signalled = {}
    /\ OpInit
    /\ WaitInit
    /\ NetInit
    /\ PatchInit
    /\ ReturnInit

NextRegistry ==
    \/ \E mask \in EventMasks : hit_poller_event(mask)
    \/ hit_poller_enumerate
    \/ hit_poller_signal
    \/ hit_poller_return
    \/ \E i \in 1..MaxRefs, st \in RefStates : WaiterGoes(i, st)
SpecRegistry == InitRegistry /\ [][NextRegistry]_vars

\* ===================================================== blocking operations
\* io/ssl.py: read, write, do_handshake and connect of SSLSocket, each a loop
\* of attempts of the non-blocking operation and waits for readiness.

\* mainloop polls until the first wake-time plus FAST_POLL_TIMEOUT: a timed
\* wait ends at most this long after its wake-time
Granularity == 1

\* ssl.SSL_ERROR_*
SSL_ERROR_SSL == 1
SSL_ERROR_WANT_READ == 2
SSL_ERROR_WANT_WRITE == 3
SSL_ERROR_EOF == 8
\* errno.*
ENOENT == 2
EBADF == 9
EWOULDBLOCK == 11
ECONNRESET == 104
ECONNREFUSED == 111
EALREADY == 114
EINPROGRESS == 115
\* the keys of errno.errorcode
ErrorCodes == 1..131
\* args[0] of socket.timeout("timed out"): a string, which is no errno
TimedOutArg == 0 - 2

\* an exception: its class and its args (code, msg)
Error(kind, code, msg) == [kind |-> kind, code |-> code, msg |-> msg]
socket_timeout == Error("socket.timeout", TimedOutArg, "timed out")
\* except socket.error: socket.timeout and ssl.SSLError derive from it
IsSocketError(e) == e.kind \in {"socket.error", "socket.timeout", "SSLError"}
\* except EnvironmentError: socket.error derives from IOError
IsEnvironmentError(e) == IsSocketError(e) \/ e.kind \in {"IOError", "OSError"}
IsSSLError(e) == e.kind = "SSLError"

\* what a call gives: a value or an exception
Ret(val) == [tag |-> "ret", val |-> val, exc |-> Nil]
Exc(e) == [tag |-> "exc", val |-> "", exc |-> e]

\* what the non-blocking operation can do in one attempt
WantRead == Error("SSLError", SSL_ERROR_WANT_READ, "ssl")
WantWrite == Error("SSLError", SSL_ERROR_WANT_WRITE, "ssl")
OtherFailures ==
    {Error("SSLError", SSL_ERROR_SSL, "ssl"),
     Error("SSLError", SSL_ERROR_EOF, "ssl"),
     Error("socket.error", ECONNRESET, "strerror")}
AttemptOutcomes == {Ret("data"), Exc(WantRead), Exc(WantWrite)} \cup {Exc(e) : e \in OtherFailures}
\* what socket.connect_ex can return
ConnectExOutcomes == {0, EINPROGRESS, ECONNREFUSED}
\* what the poller's register and unregister can raise
PollerErrors ==
    {Error("IOError", EBADF, "strerror"),
     Error("OSError", ENOENT, "strerror"),
     Error("ValueError", 0, "closed")}
OpNames == {"read", "write", "handshake", "connect"}
\* None or a number of seconds
Timeouts == {NoTime} \cup 0..MaxTimeout

\* _timeout.__init__
Timeout_init(timeout, now) ==
    [timeout |-> timeout,
     deadline |-> IF timeout # NoTime THEN now + timeout ELSE NoTime]

\* mutant: the time left is the whole timeout at every call
Timeout_now_whole(t, now) == [raises |-> FALSE, value |-> t.timeout]

\* _timeout.now
Timeout_now(t, now) ==
    IF t.timeout = NoTime THEN [raises |-> FALSE, value |-> NoTime]
    ELSE LET timeout == t.deadline - now
         IN IF timeout < 0 THEN [raises |-> TRUE, value |-> NoTime]
            ELSE [raises |-> FALSE, value |-> timeout]

\* mutant: the poller's error is raised as it is
wait_event_except_raw(error) == error

\* _wait_event, lines 300-303 and 311-314
wait_event_except(error) ==
    IF IsEnvironmentError(error) /\ error.code \in ErrorCodes
    THEN Error("socket.error", error.code, error.msg)
    ELSE error

\* mutant: every SSLError of the attempt counts as the end of the stream
read_attempt_any(o, suppress_ragged_eofs) ==
    IF o.tag = "exc" /\ IsSSLError(o.exc) THEN Ret("") ELSE o

\* _read_attempt
read_attempt(o, suppress_ragged_eofs) ==
    IF o.tag = "exc" /\ IsSSLError(o.exc) /\ o.exc.code = SSL_ERROR_EOF /\ suppress_ragged_eofs
    THEN Ret("")
    ELSE o

\* _with_retry, line 329: the write argument of the wait after SSL_ERROR_WANT_WRITE
WithRetryWantWrite == FALSE

\* the _timeout object in use
CurTout == IF op.name = "connect" /\ phase = "hs" THEN htout ELSE tout

\* the last attempt indicated would-block for this direction ("read" or
\* "write"; a connect in progress completes when the socket is writable)
Wants(h, direction) == [h EXCEPT !.want = direction]

\* ---- how a step of the operation ends (h: the history after the step)
\* the operation returns val to its caller
Return(val, h) ==
    /\ opc' = "done"
    /\ result' = Ret(val)
    /\ ohist' = [h EXCEPT !.ended = time]
    /\ phase' = phase

\* the exception e reaches the caller of the operation
RaiseOut(e, h) ==
    /\ opc' = "done"
    /\ result' = Exc(e)
    /\ ohist' = [h EXCEPT !.ended = time]
    /\ phase' = phase

\* connect, lines 256-260, with err the value _connect returned
connect_err(err, h) ==
    IF err \in {EINPROGRESS, EALREADY, EWOULDBLOCK}
    THEN /\ opc' = "cwait"
         /\ result' = result
         /\ ohist' = Wants(h, "write")
         /\ phase' = "sock"
    ELSE IF err # 0
         THEN RaiseOut(IF err \in ErrorCodes
                       THEN Error("socket.error", err, "errorcode")
                       ELSE Error("KeyError", err, "errorcode"), h)
         ELSE Return("0", h)

\* the exception e leaves do_handshake, _with_retry or _wait_event:
\* _connect, lines 242-246, catches a socket.error of its handshake and
\* returns exc.args[0]
Unwind(e, h) ==
    IF op.name = "connect" /\ phase = "hs" /\ IsSocketError(e)
    THEN connect_err(e.code, h)
    ELSE RaiseOut(e, h)

\* self._wait_event(tout.now, write): tout.now is evaluated first
BeginWait(t, write, cont, h) ==
    LET now == Timeout_now(t, time)
    IN IF now.raises
       THEN /\ Unwind(socket_timeout, [h EXCEPT !.timedout = TRUE])
            /\ wev' = wev
       ELSE /\ opc' = "register"
            /\ wev' = [timeout |-> now.value, write |-> write, cont |-> cont]
            /\ result' = result
            /\ ohist' = h
            /\ phase' = phase

\* the first failure of the underlying operation that is no would-block
Failed(h, e) == IF h.failed = Nil THEN [h EXCEPT !.failed = e] ELSE h

\* ---- the steps
\* a task calls read(), write(), do_handshake(timeout) or connect()
op_call(name, timeout, suppress_ragged_eofs) ==
    /\ opc = "idle"
    /\ op' = [name |-> name, timeout |-> timeout, start |-> time,
              suppress_ragged_eofs |-> suppress_ragged_eofs]
    /\ tout' = Timeout_init(timeout, time)
    /\ opc' = IF name = "connect" THEN "cwait" ELSE "attempt"
    /\ UNCHANGED <<time, phase, htout, wev, pend, result, ohist>>
    /\ UNCHANGED <<srest, pvars, kvars, nvars, mvars, rvars>>

\* connect, line 254: self._wait_event(tout.now, write=True)
op_connect_wait ==
    /\ opc = "cwait"
    /\ BeginWait(tout, TRUE, "connect_ex", ohist)
    /\ UNCHANGED <<time, op, tout, htout, pend>>
    /\ UNCHANGED <<srest, pvars, kvars, nvars, mvars, rvars>>

\* connect, line 255: err = self._connect(address, tout.now)
op_connect_ex(err) ==
    /\ opc = "connect_ex"
    /\ LET now == Timeout_now(tout, time)
       IN IF now.raises
          THEN /\ RaiseOut(socket_timeout, [ohist EXCEPT !.timedout = TRUE])
               /\ htout' = htout
          ELSE IF err # 0
               THEN /\ connect_err(err, ohist)
                    /\ htout' = htout
               ELSE /\ htout' = Timeout_init(now.value, time)
                    /\ phase' = "hs"
                    /\ opc' = "attempt"
                    /\ UNCHANGED <<result, ohist>>
    /\ UNCHANGED <<time, op, tout, wev, pend>>
    /\ UNCHANGED <<srest, pvars, kvars, nvars, mvars, rvars>>

\* _with_retry.f, lines 322-331, after func() gave o
with_retry(o, h) ==
    IF o.tag = "ret" THEN Return(o.val, h) /\ wev' = wev
    ELSE IF IsSSLError(o.exc) /\ o.exc.code = SSL_ERROR_WANT_READ
         THEN BeginWait(tout, FALSE, "attempt", Wants(h, "read"))
    ELSE IF IsSSLError(o.exc) /\ o.exc.code = SSL_ERROR_WANT_WRITE
         THEN BeginWait(tout, WithRetryWantWrite, "attempt", Wants(h, "write"))
    ELSE Unwind(o.exc, Failed(h, o.exc)) /\ wev' = wev

\* do_handshake, lines 214-224, after self._sslobj.do_handshake() gave o;
\* when it returns inside _connect, lines 248-249 return 0
do_handshake(o, h) ==
    IF o.tag = "ret"
    THEN Return(IF op.name = "connect" THEN "0" ELSE "None", h) /\ wev' = wev
    ELSE IF IsSSLError(o.exc) /\ o.exc.code = SSL_ERROR_WANT_READ
         THEN BeginWait(CurTout, FALSE, "attempt", Wants(h, "read"))
    ELSE IF IsSSLError(o.exc) /\ o.exc.code = SSL_ERROR_WANT_WRITE
         THEN BeginWait(CurTout, TRUE, "attempt", Wants(h, "write"))
    ELSE Unwind(o.exc, Failed(h, o.exc)) /\ wev' = wev

\* one attempt of the non-blocking operation, which gives o
op_attempt(o) ==
    /\ opc = "attempt"
    /\ LET h == [ohist EXCEPT !.attempts = @ + 1]
       IN CASE op.name = "read" -> with_retry(read_attempt(o, op.suppress_ragged_eofs), h)
            [] op.name = "write" -> with_retry(o, h)
            [] OTHER -> do_handshake(o, h)
    /\ UNCHANGED <<time, op, tout, htout, pend>>
    /\ UNCHANGED <<srest, pvars, kvars, nvars, mvars, rvars>>

\* _wait_event, lines 298-303: poller.register gives o ("ok" or an error)
op_register(o) ==
    /\ opc = "register"
    /\ IF o = Nil
       THEN /\ opc' = "wait"
            /\ UNCHANGED <<result, ohist, phase>>
       ELSE Unwind(wait_event_except(o), [ohist EXCEPT !.regerr = o])
    /\ UNCHANGED <<time, op, tout, htout, wev, pend>>
    /\ UNCHANGED <<srest, pvars, kvars, nvars, mvars, rvars>>

\* when a wait that began at now with this timeout can end at t2, timed out or not
Event_wait(timeout, now, t2, timedout) ==
    /\ t2 >= now
    /\ timeout # NoTime => t2 <= now + timeout + Granularity
    /\ timedout => (timeout # NoTime /\ t2 >= now + timeout)

\* _wait_event, lines 305-307: event.wait(timeout) returns at t2
op_wait(t2, timedout) ==
    /\ opc = "wait"
    /\ Event_wait(wev.timeout, time, t2, timedout)
    /\ ~timedout => ohist.wakes < MaxWakes
    /\ time' = t2
    /\ pend' = IF timedout THEN socket_timeout ELSE Nil
    /\ ohist' = [ohist EXCEPT !.waited = TRUE,
                              !.wakes = IF timedout THEN @ ELSE @ + 1,
                              !.timedout = @ \/ timedout]
    /\ opc' = "unregister"
    /\ UNCHANGED <<op, phase, tout, htout, wev, result>>
    /\ UNCHANGED <<srest, pvars, kvars, nvars, mvars, rvars>>

\* _wait_event, lines 308-314: finally: poller.unregister gives o
op_unregister(o) ==
    /\ opc = "unregister"
    /\ IF o # Nil
       THEN Unwind(wait_event_except(o), [ohist EXCEPT !.regerr = o])
       ELSE IF pend # Nil
            THEN Unwind(pend, ohist)
            ELSE /\ opc' = wev.cont
                 /\ UNCHANGED <<result, ohist, phase>>
    /\ pend' = Nil
    /\ UNCHANGED <<time, op, tout, htout, wev>>
    /\ UNCHANGED <<srest, pvars, kvars, nvars, mvars, rvars>>

\* time passes before the operation is called
op_before ==
    /\ opc = "idle"
    /\ time < MaxTime
    /\ time' = time + 1
    /\ UNCHANGED <<srest, pvars, ovars, kvars, nvars, mvars, rvars>>

NextOp ==
    \/ op_before
    \/ \E name \in OpNames, timeout \in Timeouts, b \in BOOLEAN : op_call(name, timeout, b)
    \/ op_connect_wait
    \/ \E err \in ConnectExOutcomes : op_connect_ex(err)
    \/ \E o \in AttemptOutcomes : op_attempt(o)
    \/ \E o \in {Nil} \cup PollerErrors : op_register(o)
    \/ \E t2 \in 0..MaxTime, timedout \in BOOLEAN : op_wait(t2, timedout)
    \/ \E o \in {Nil} \cup PollerErrors : op_unregister(o)
SpecOp == Init /\ [][NextOp]_vars

\* ============================================== the poller and its waiters
\* One descriptor, one open socket on it, and the tasks that wait for its
\* readiness in _wait_event (io/ssl.py, lines 294-314).  The Poller keeps
\* one item per outstanding interest of the descriptor.
Flags == {"IN", "OUT", "ERR"}
Masks == (SUBSET Flags) \ {{}}
Waiters == 1..MaxWaiters
Tokens(reg) == {i.token : i \in reg}
\* the mask the descriptor is registered with: every outstanding interest
Registered(reg) == UNION {i.mask : i \in reg}

\* the descriptor is already registered with a superset of mask
IsNoop(reg, mask) == reg # {} /\ mask \subseteq Registered(reg)
\* the tokens register() may return: in the no-op case a token of the
\* existing registration, else the next value of the counter
RegisterTokens(reg, cnt, mask) == IF IsNoop(reg, mask) THEN Tokens(reg) ELSE {cnt + 1}

\* mutant: every call adds an item
Poller_register_always(reg, cnt, mask, tok) ==
    [registry |-> reg \cup {[token |-> cnt + 1, mask |-> mask]},
     counter |-> cnt + 1, token |-> cnt + 1]

\* Poller.register(fd, mask), returning tok
Poller_register(reg, cnt, mask, tok) ==
    IF IsNoop(reg, mask)
    THEN [registry |-> reg, counter |-> cnt, token |-> tok]
    ELSE [registry |-> reg \cup {[token |-> tok, mask |-> mask]},
          counter |-> tok, token |-> tok]

\* Poller.unregister(fd, token): silent when the token is not there
Poller_unregister(reg, token) == {i \in reg : i.token # token}

\* Poller.poll(): of what is ready, the events the descriptor is registered for
Poller_poll(reg, ready) == ready \cap Registered(reg)

\* Signal.set() and Signal.clear(): the flag afterwards
Event_set(flag) == TRUE
Event_clear(flag) == FALSE

\* mutant: the Signal stays set
on_readable_latch(flag) == Event_set(flag)

\* _on_readable: self._readable.set(); self._readable.clear()
on_readable(flag) == Event_clear(Event_set(flag))
\* _on_writable: self._writable.set(); self._writable.clear()
on_writable(flag) == Event_clear(Event_set(flag))

\* _wait_event, line 296: mask = poller.ERRMASK | (OUTMASK if write else INMASK)
WaitMask(write) == {"ERR"} \cup (IF write THEN {"OUT"} ELSE {"IN"})
\* _wait_event, line 297: event = self._writable if write else self._readable
WaitEvent(write) == IF write THEN "w" ELSE "r"
\* the flag of the poll's event mask that fires a Signal
EventFlag(e) == IF e = "w" THEN "OUT" ELSE "IN"

\* mutant: the finally clause unregisters the newest registration
WaitEventToken_newest(w) == counter

\* _wait_event, line 310: poller.unregister(self, counter)
WaitEventToken(w) == wt[w].token

\* the tasks blocked in wait() on the Signal e
Blocked(e) == {w \in Waiters : wt[w].pc = "waiting" /\ WaitEvent(wt[w].write) = e}

\* what the history keeps of a register() call
RegisterCall(mask, r) ==
    IF IsNoop(registry, mask)
    THEN [mask |-> mask, before |-> registry, after |-> r.registry, token |-> r.token]
    ELSE Nil

\* _wait_event, lines 295-306: register, then event.wait(timeout) begins; it
\* returns at once when the Signal is set
wait_event_register(w, write, tok) ==
    /\ wt[w].pc = "idle"
    /\ tok \in RegisterTokens(registry, counter, WaitMask(write))
    /\ tok <= MaxTokens
    /\ LET r == Poller_register(registry, counter, WaitMask(write), tok)
           e == WaitEvent(write)
       IN /\ registry' = r.registry
          /\ counter' = r.counter
          /\ shared' = IF IsNoop(registry, WaitMask(write)) THEN shared \cup {tok} ELSE shared
          /\ wt' = [wt EXCEPT ![w] =
                       [pc |-> IF isset[e] THEN "atonce" ELSE "waiting",
                        write |-> write, token |-> r.token, rolled |-> FALSE]]
    /\ UNCHANGED <<isset, held, fired, plast, missed>>
    /\ UNCHANGED <<svars, pvars, ovars, nvars, mvars, rvars>>

\* _hit_poller, lines 38-54, for the descriptor's event mask when ready is
\* what the descriptor is ready for: each Signal named in the mask is set
\* and cleared, which wakes the tasks blocked on it
hit_poller(ready) ==
    /\ ready \in (SUBSET {"IN", "OUT"}) \ {{}}
    /\ LET events == Poller_poll(registry, ready)
           firing == {e \in {"r", "w"} : EventFlag(e) \in events}
           woken == UNION {Blocked(e) : e \in firing}
       IN /\ fired' = [e \in {"r", "w"} |-> fired[e] \/ e \in firing]
          /\ isset' = [e \in {"r", "w"} |->
                          IF e \notin firing THEN isset[e]
                          ELSE IF e = "r" THEN on_readable(isset[e])
                          ELSE on_writable(isset[e])]
          /\ wt' = [w \in Waiters |->
                       IF w \in woken
                       THEN [wt[w] EXCEPT !.pc = "woken"]
                       ELSE wt[w]]
          /\ missed' = missed \cup
                 {[task |-> w, token |-> wt[w].token] :
                      w \in {v \in Waiters : /\ wt[v].pc = "waiting"
                                             /\ wt[v].token \notin shared
                                             /\ EventFlag(WaitEvent(wt[v].write)) \in ready
                                             /\ v \notin woken}}
    /\ UNCHANGED <<registry, counter, held, plast, shared>>
    /\ UNCHANGED <<svars, pvars, ovars, nvars, mvars, rvars>>

\* event.wait(timeout) of a task that gave a timeout ends with no firing
wait_event_timeout(w) ==
    /\ wt[w].pc = "waiting"
    /\ wt' = [wt EXCEPT ![w].pc = "timedout"]
    /\ UNCHANGED <<registry, counter, isset, held, fired, plast, shared, missed>>
    /\ UNCHANGED <<svars, pvars, ovars, nvars, mvars, rvars>>

\* event.wait(timeout) ends with an exception raised in the waiting task
wait_event_raise(w) ==
    /\ wt[w].pc = "waiting"
    /\ wt' = [wt EXCEPT ![w].pc = "raised"]
    /\ UNCHANGED <<registry, counter, isset, held, fired, plast, shared, missed>>
    /\ UNCHANGED <<svars, pvars, ovars, nvars, mvars, rvars>>

\* mutant: the unregister follows the wait outside a finally clause, so it
\* is skipped when the wait ends with an exception
wait_event_finally_skipped(reg, token, ended) ==
    IF ended \in {"timedout", "raised"} THEN reg ELSE Poller_unregister(reg, token)

\* _wait_event, lines 305-310: try: ... finally: poller.unregister(self, counter),
\* however the wait ended
wait_event_finally(reg, token, ended) == Poller_unregister(reg, token)

\* _wait_event, lines 308-310: finally: poller.unregister(self, counter)
wait_event_unregister(w) ==
    /\ wt[w].pc \in {"woken", "timedout", "atonce", "raised"}
    /\ LET token == WaitEventToken(w)
       IN /\ registry' = wait_event_finally(registry, token, wt[w].pc)
          /\ wt' = [v \in Waiters |->
                       IF v = w THEN NoWait
                       ELSE IF wt[v].pc = "waiting" /\ wt[v].token # token
                                 /\ token \in Tokens(registry)
                            THEN [wt[v] EXCEPT !.rolled = TRUE]
                            ELSE wt[v]]
    /\ UNCHANGED <<counter, isset, held, fired, plast, shared, missed>>
    /\ UNCHANGED <<svars, pvars, ovars, nvars, mvars, rvars>>

\* a direct call of poller.register(sock, mask), as the tests make
register_direct(mask, tok) ==
    /\ Cardinality(held) < MaxHeld
    /\ tok \in RegisterTokens(registry, counter, mask)
    /\ tok <= MaxTokens
    /\ LET r == Poller_register(registry, counter, mask, tok)
       IN /\ registry' = r.registry
          /\ counter' = r.counter
          /\ plast' = RegisterCall(mask, r)
          /\ held' = held \cup {r.token}
    /\ shared' = IF IsNoop(registry, mask) THEN shared \cup {tok} ELSE shared
    /\ UNCHANGED <<isset, wt, fired, missed>>
    /\ UNCHANGED <<svars, pvars, ovars, nvars, mvars, rvars>>

\* a direct call of poller.unregister(sock, token)
unregister_direct(token) ==
    /\ token \in held
    /\ registry' = Poller_unregister(registry, token)
    /\ held' = held \ {token}
    /\ UNCHANGED <<counter, isset, wt, fired, plast, shared, missed>>
    /\ UNCHANGED <<svars, pvars, ovars, nvars, mvars, rvars>>

\* the tests' direct calls
NextPoller ==
    \/ \E mask \in Masks, tok \in 1..MaxTokens : register_direct(mask, tok)
    \/ \E token \in 1..MaxTokens : unregister_direct(token)
SpecPoller == Init /\ [][NextPoller]_vars

\* tasks in _wait_event and the loop's polls
NextWait ==
    \/ \E w \in Waiters, write \in BOOLEAN, tok \in 1..MaxTokens :
           wait_event_register(w, write, tok)
    \/ \E ready \in SUBSET {"IN", "OUT"} : hit_poller(ready)
    \/ \E w \in Waiters : wait_event_timeout(w)
    \/ \E w \in Waiters : wait_event_unregister(w)
SpecWait == Init /\ [][NextWait]_vars

\* the same, with waits that end with an exception
NextScoped ==
    \/ \E w \in Waiters, write \in BOOLEAN, tok \in 1..MaxTokens :
           wait_event_register(w, write, tok)
    \/ \E ready \in SUBSET {"IN", "OUT"} : hit_poller(ready)
    \/ \E w \in Waiters : wait_event_timeout(w)
    \/ \E w \in Waiters : wait_event_raise(w)
    \/ \E w \in Waiters : wait_event_unregister(w)
SpecScoped == Init /\ [][NextScoped]_vars

\* ======================================================= a read end to end
\* read() of a connected SSLSocket while the peer sends one payload, which
\* the transport delivers in fragments.
\* read(self, len=1024)
DefaultLen == 1024
\* the payload: PayloadLen different bytes
Payload == [i \in 1..PayloadLen |-> i]
\* a string of bytes as a return value
Bytes(seq) == ToString(seq)

\* self._sslobj.read(len) of a non-blocking socket when avail bytes of the
\* peer's record have arrived: the record is handed out once it is complete
sslobj_read(avail, len) ==
    IF avail = PayloadLen
    THEN Ret(Bytes(SubSeq(Payload, 1, IF len < PayloadLen THEN len ELSE PayloadLen)))
    ELSE Exc(WantRead)

\* the peer writes the payload
peer_send ==
    /\ ~sent
    /\ sent' = TRUE
    /\ UNCHANGED <<arrived, taken>>
    /\ UNCHANGED <<svars, pvars, ovars, kvars, mvars, rvars>>

\* the transport delivers the next k bytes
deliver(k) ==
    /\ sent
    /\ k >= 1 /\ arrived + k <= PayloadLen
    /\ arrived' = arrived + k
    /\ UNCHANGED <<sent, taken>>
    /\ UNCHANGED <<svars, pvars, ovars, kvars, mvars, rvars>>

\* read(): _with_retry.f calls _read_attempt, which reads what has arrived
read_try ==
    /\ opc = "attempt"
    /\ op.name = "read"
    /\ with_retry(read_attempt(sslobj_read(arrived, DefaultLen), op.suppress_ragged_eofs),
                  [ohist EXCEPT !.attempts = @ + 1])
    /\ taken' = arrived
    /\ UNCHANGED <<time, op, tout, htout, pend>>
    /\ UNCHANGED <<sent, arrived>>
    /\ UNCHANGED <<srest, pvars, kvars, mvars, rvars>>

\* the poll reports the descriptor readable (bytes have arrived that were not
\* read), _hit_poller fires _readable and the wait of the read ends at t2
read_wake(t2) ==
    /\ opc = "wait"
    /\ arrived > taken
    /\ ~wev.write
    /\ op_wait(t2, FALSE)

NextRead ==
    \/ \E b \in BOOLEAN : op_call("read", NoTime, b)
    \/ peer_send
    \/ \E k \in 1..PayloadLen : deliver(k)
    \/ read_try
    \/ op_register(Nil)
    \/ \E t2 \in 0..MaxTime : read_wake(t2)
    \/ op_unregister(Nil)
SpecRead == Init /\ [][NextRead]_vars

\* =========================================================== monkeypatch.py
\* the objects the module saves when it is imported: _open, _file, _socket,
\* _allocate_lock, _event, _queue
Saved == [n \in PatchedNames |-> "orig"]
\* the parameters of enable and disable, in order
PatchArgs == <<"builtins", "socket", "thread", "threading", "queue">>
\* every parameter is a flag, 1 by default
FlagLists == [1..Len(PatchArgs) -> {0, 1}]
AllOn == [i \in 1..Len(PatchArgs) |-> 1]

\* how a call ends: the bindings it leaves, the exception it raises or "None"
Done(b) == [binds |-> b, raised |-> "None"]
Raised(b, e) == [binds |-> b, raised |-> e]

\* builtins(enable=True)
builtins(b, enable) ==
    IF enable
    THEN Done([b EXCEPT !["open"] = "green", !["file"] = "green"])
    ELSE Done([b EXCEPT !["open"] = Saved["open"], !["file"] = Saved["file"]])

\* socket(enable=True): line 49 reads the name Socket, which nothing defines
socket(b, enable) ==
    IF enable
    THEN Raised(b, "NameError")
    ELSE Done([b EXCEPT !["socket"] = Saved["socket"]])

\* thread(enable=True): both branches read thread_module, which nothing imports
thread(b, enable) == Raised(b, "NameError")

\* threading(enable=True)
threading(b, enable) ==
    Done([b EXCEPT !["Event"] = IF enable THEN "green" ELSE Saved["Event"]])

\* queue(enable=True)
queue(b, enable) ==
    Done([b EXCEPT !["Queue"] = IF enable THEN "green" ELSE Saved["Queue"]])

\* inside enable and disable the names builtins, socket, ... are the
\* parameters: "builtins()" calls the flag, an int
CallFlag(b) == Raised(b, "TypeError")

\* enable(...), lines 8-18, and disable(...), lines 21-31: the first flag
\* that is true is called
enable_or_disable(b, flags) ==
    IF \E i \in 1..Len(PatchArgs) : flags[i] # 0 THEN CallFlag(b) ELSE Done(b)

\* how the history records a call
PatchCall(fn, flags, en, r) ==
    /\ binds' = r.binds
    /\ mlast' = [fn |-> fn, flags |-> flags, en |-> en, raised |-> r.raised]
    /\ prior' = IF prior = Nil /\ en THEN binds ELSE prior
    /\ UNCHANGED <<svars, pvars, ovars, kvars, nvars, rvars>>

\* monkeypatch.enable(builtins, socket, thread, threading, queue)
enable(flags) ==
    /\ flags \in FlagLists
    /\ PatchCall("enable", flags, TRUE, enable_or_disable(binds, flags))

\* monkeypatch.disable(builtins, socket, thread, threading, queue)
disable(flags) ==
    /\ flags \in FlagLists
    /\ PatchCall("disable", flags, FALSE, enable_or_disable(binds, flags))

\* a call of one of the five patch functions of the module
patch(fn, en) ==
    /\ en \in BOOLEAN
    /\ PatchCall(fn, <<>>, en,
                 CASE fn = "builtins" -> builtins(binds, en)
                   [] fn = "socket" -> socket(binds, en)
                   [] fn = "thread" -> thread(binds, en)
                   [] fn = "threading" -> threading(binds, en)
                   [] fn = "queue" -> queue(binds, en))

NextPatch ==
    \/ \E flags \in FlagLists : enable(flags)
    \/ \E flags \in FlagLists : disable(flags)
    \/ \E i \in 1..Len(PatchArgs), en \in BOOLEAN : patch(PatchArgs[i], en)
SpecPatch == Init /\ [][NextPatch]_vars

\* ------------------------------------------ results of the scheduling calls
\* the closure "def target(): inner_target(*args, **kwargs)" built at lines 96-98
Wrapper == MaxGlets + 2

\* what the name target is bound to at "return target"; args and kwargs say
\* whether the argument is non-empty (if args or kwargs)
return_target(target, args, kwargs) ==
    IF target # Function THEN target
    ELSE IF args \/ kwargs THEN Wrapper
    ELSE target

\* what the caller got: deco says the call went through the decorator form
\* (target=None, then decorator(target) calls the function again)
Kept(fn, target, args, kwargs, deco) ==
    [fn |-> fn, target |-> target, args |-> args, kwargs |-> kwargs,
     deco |-> deco, value |-> return_target(target, args, kwargs)]

schedule_kept(target, args, kwargs, deco) ==
    /\ InBody /\ CanCall
    /\ ValidTarget(target)
    /\ wrap(target, Nil)
    /\ paused' = PausedAppend(paused, Elem(GletOf(target)))
    /\ calls' = Append(calls, Call("schedule", GletOf(target), NoTime))
    /\ returned' = Kept("schedule", target, args, kwargs, deco)
    /\ UNCHANGED <<time, timed_paused, to_run, awoken_from_events, waiting,
                   rec, running, rpc, pc, hvars, log, invoked>>
    /\ UNCHANGED <<pvars, ovars, kvars, nvars, mvars>>

schedule_at_kept(fn, unixtime, target, args, kwargs, deco) ==
    /\ InBody /\ CanCallTimed
    /\ ValidTarget(target)
    /\ wrap(target, Nil)
    /\ timed_paused' = TimedInsort(timed_paused, unixtime, Elem(GletOf(target)))
    /\ calls' = Append(calls, Call("schedule_at", GletOf(target), unixtime))
    /\ returned' = Kept(fn, target, args, kwargs, deco)
    /\ UNCHANGED <<time, paused, to_run, awoken_from_events, waiting,
                   rec, running, rpc, pc, hvars, log, invoked>>
    /\ UNCHANGED <<pvars, ovars, kvars, nvars, mvars>>

\* return schedule_at(time.time() + secs, target, args, kwargs)
schedule_in_kept(secs, target, args, kwargs, deco) ==
    schedule_at_kept("schedule_in", time + secs, target, args, kwargs, deco)

schedule_to_top_kept(target, args, kwargs, deco) ==
    /\ InBody /\ CanCall
    /\ ValidTarget(target)
    /\ wrap(target, Nil)
    /\ to_run' = ToRunAppendLeft(to_run, Elem(GletOf(target)))
    /\ calls' = Append(calls, Call("schedule_to_top", GletOf(target), NoTime))
    /\ returned' = Kept("schedule_to_top", target, args, kwargs, deco)
    /\ UNCHANGED <<time, timed_paused, paused, awoken_from_events, waiting,
                   rec, running, rpc, pc, hvars, log, invoked>>
    /\ UNCHANGED <<pvars, ovars, kvars, nvars, mvars>>

\* the scheduling calls with every shape of arguments, results kept
NextReturn ==
    \/ \E target \in Targets, a, k, d \in BOOLEAN : schedule_kept(target, a, k, d)
    \/ \E target \in Targets, t \in 0..MaxTime, a, k, d \in BOOLEAN :
           schedule_at_kept("schedule_at", t, target, a, k, d)
    \/ \E target \in Targets, secs \in 0..MaxSecs, a, k, d \in BOOLEAN :
           schedule_in_kept(secs, target, a, k, d)
    \/ \E target \in Targets, a, k, d \in BOOLEAN : schedule_to_top_kept(target, a, k, d)
    \/ (running = main /\ Signal_wait)
    \/ Finish
    \/ mainloop_refill
    \/ mainloop_wait
    \/ mainloop_switch
SpecReturn == Init /\ [][NextReturn]_vars

\* every scheduling and pausing call under a running clock, with tasks that
\* block in external waits
NextPlace ==
    \/ Tick
    \/ \E target \in Targets : schedule(target)
    \/ \E target \in Targets, t \in 0..MaxTime : schedule_at(t, target)
    \/ \E target \in Targets, secs \in 0..MaxSecs : schedule_in(secs, target)
    \/ \E target \in Targets : schedule_to_top(target)
    \/ pause
    \/ \E t \in 0..MaxTime : pause_until(t)
    \/ \E secs \in 0..MaxSecs : pause_for(secs)
    \/ Signal_wait
    \/ Finish
    \/ mainloop_refill
    \/ mainloop_wait
    \/ mainloop_switch
SpecPlace == Init /\ [][NextPlace]_vars

\* the main greenlet schedules functions, now and after a delay, pauses and
\* blocks; the functions run and return; there is no schedule_to_top.  The
\* mainloop takes its steps as long as one is possible (while 1), and a
\* task that has control gives it up in the end
NextFair ==
    \/ Tick
    \/ (running = main /\ schedule(Function))
    \/ (running = main /\ schedule_in(MaxSecs, Function))
    \/ (running = main /\ pause)
    \/ (running = main /\ Signal_wait)
    \/ Finish
    \/ mainloop_refill
    \/ mainloop_wait
    \/ mainloop_switch
Yields ==
    \/ (running = main /\ pause)
    \/ (running = main /\ Signal_wait)
    \/ Finish
SpecFair == Init /\ [][NextFair]_vars
FairDispatch ==
    /\ SpecFair
    /\ WF_vars(mainloop_refill \/ mainloop_wait \/ mainloop_switch)
    /\ WF_vars(Yields)

\* the main greenlet schedules, schedules at a time and pauses, every
\* greenlet may block on a Signal, under a running clock and with no
\* schedule_to_top: what the mainloop's refill finds
NextRefill ==
    \/ Tick
    \/ (running = main /\ schedule(Function))
    \/ (running = main /\ \E t \in 0..MaxTime : schedule_at(t, Function))
    \/ (running = main /\ pause)
    \/ Signal_wait
    \/ Finish
    \/ mainloop_refill
    \/ mainloop_wait
    \/ mainloop_switch
SpecRefill == Init /\ [][NextRefill]_vars

\* ================================================================ claims
\* what the history says about a queue element
Enqueued(id) == id \in 1..Len(calls)
BySchedule(id) == Enqueued(id) /\ calls[id].via \in {"schedule", "pause"}
ByTop(id) == Enqueued(id) /\ calls[id].via = "schedule_to_top"
IsTimed(id) == Enqueued(id) /\ calls[id].at # NoTime
Before(a, b) == InLog(a) /\ InLog(b) /\ LogPos(a) < LogPos(b)

\* C1: two elements enqueued by schedule() (pause() enqueues with schedule())
\* are dispatched in the order of the calls: once the later one has been
\* dispatched, the earlier one was dispatched before it.
C1_Fifo ==
    \A a \in 1..Len(calls), b \in 1..Len(calls) :
        (a < b /\ BySchedule(a) /\ BySchedule(b) /\ InLog(b)) => Before(a, b)

\* two consecutive schedule() calls of two greenlets, both dispatched
C1_Witness ==
    \E a \in 1..Len(calls) :
        /\ BySchedule(a) /\ BySchedule(a + 1)
        /\ calls[a].via = "schedule" /\ calls[a + 1].via = "schedule"
        /\ calls[a].g # calls[a + 1].g
        /\ Before(a, a + 1)

\* C2: schedule_to_top(X) then schedule_to_top(Y) with no dispatch between:
\* Y is dispatched before X, and both before every element that was in
\* to_run or paused when X was put on top.
StackedTop(x, y) ==
    /\ ByTop(x) /\ ByTop(y) /\ y = x + 1
    /\ calls[x].epoch = calls[y].epoch

C2_TopStacks ==
    \A x \in 1..Len(calls), y \in 1..Len(calls) :
        StackedTop(x, y) =>
            /\ InLog(x) => Before(y, x)
            /\ \A w \in calls[x].ahead :
                   InLog(w) => (Before(x, w) /\ Before(y, w))

C2_Witness ==
    \E x \in 1..Len(calls), y \in 1..Len(calls) :
        /\ StackedTop(x, y)
        /\ calls[x].g # calls[y].g
        /\ \E w \in calls[x].ahead : Before(y, x) /\ Before(x, w)

\* C3: the element pause() enqueues for the caller is in a ready queue until
\* it is dispatched, the caller has given up control, and it is dispatched
\* only after every element that was in to_run or paused at the call.
ByPause(id) == Enqueued(id) /\ calls[id].via = "pause"

C3_Pause ==
    \A p \in 1..Len(calls) :
        ByPause(p) =>
            /\ InLog(p) \/ p \in Ids(paused) \cup Ids(to_run)
            /\ ~InLog(p) => running # calls[p].g \/ calls[p].epoch < Len(log)
            /\ InLog(p) => \A w \in calls[p].ahead : Before(w, p)

C3_Witness ==
    \E p \in 1..Len(calls) :
        /\ ByPause(p) /\ InLog(p)
        /\ Cardinality(calls[p].ahead) >= 2
        /\ \E w \in calls[p].ahead : calls[w].g # calls[p].g


\* C4: an element put in timed_paused with wake-time T is moved to to_run
\* (and so dispatched from there) only when the clock is not below T.
Promoted(id) == IsTimed(id) /\ id \notin TimedIds(timed_paused)

C4_NeverEarly ==
    \A id \in 1..Len(calls) :
        IsTimed(id) =>
            /\ id \in TimedIds(timed_paused) \cup Ids(to_run) \/ InLog(id)
            /\ Promoted(id) => calls[id].at <= time

\* a wake-time in the future at the call, the element dispatched after it
C4_Witness ==
    \E id \in 1..Len(calls) :
        /\ IsTimed(id) /\ calls[id].fut /\ calls[id].at >= 1
        /\ calls[id].via \in {"pause_until", "schedule_at"}
        /\ InLog(id)

\* C5: of two timed elements with wake-times t1 < t2, both in the future at
\* their calls, the one with t1 leaves timed_paused no later than the other
\* and is ahead of it in to_run and in the order of dispatch.
C5_DeadlineOrder ==
    \A a \in 1..Len(calls), b \in 1..Len(calls) :
        (IsTimed(a) /\ IsTimed(b) /\ calls[a].fut /\ calls[b].fut
            /\ calls[a].at < calls[b].at) =>
            /\ Promoted(b) => Promoted(a)
            /\ (a \in Ids(to_run) /\ b \in Ids(to_run)) => Pos(to_run, a) < Pos(to_run, b)
            /\ InLog(b) => Before(a, b)

\* the later deadline was scheduled first; both were promoted and dispatched
C5_Witness ==
    \E a \in 1..Len(calls), b \in 1..Len(calls) :
        /\ IsTimed(a) /\ IsTimed(b) /\ calls[a].fut /\ calls[b].fut
        /\ calls[a].at < calls[b].at
        /\ b < a
        /\ Before(a, b)


\* C6: the k-th invocation of the recurring target runs from an element armed
\* for start + k * interval (start: starting_at, or the call time).
C6_AntiDrift ==
    rec # Nil =>
        \A k \in 1..Len(invoked) : invoked[k].armed = rec.start + k * rec.interval

\* C7 as claimed: once the recurrence is in no queue and not running, maxtimes
\* was positive and the target has been invoked exactly maxtimes times.
RecGone ==
    /\ rec # Nil
    /\ \A g \in Greenlets : recargs[g] # Nil => ~Referenced(g)
LastRaised == invoked # <<>> /\ invoked[Len(invoked)].raised

RecSafe ==
    rec # Nil =>
        /\ rec.maxtimes > 0 => Len(invoked) <= rec.maxtimes
        /\ RecGone => \/ LastRaised
                      \/ rec.maxtimes > 0 /\ Len(invoked) = rec.maxtimes
RecDone ==
    /\ rec # Nil /\ rec.maxtimes > 0
    /\ Len(invoked) = rec.maxtimes
    /\ rec.start + rec.maxtimes * rec.interval < MaxTime

DeliveryDone == failure # Nil /\ pc # "consume"
InvokedFor(reg) == \E j \in 1..Len(delivered) : delivered[j].reg = reg

Ready(id) == id \in Ids(to_run) \cup Ids(paused)

C10_Isolation ==
    \A j \in 1..Len(delivered) :
        delivered[j].raised =>
            /\ pc # "dead"
            /\ exc = failure
            /\ DeliveryDone =>
                   \A i \in 1..Len(regs) :
                       (regs[i].reg > delivered[j].reg /\ regs[i].h \in halive) =>
                           \E k \in 1..Len(delivered) :
                               /\ delivered[k].reg = regs[i].reg
                               /\ delivered[k].info = delivered[j].info

\* the first handler raised, the second was still invoked, the loop went on
C10_Witness ==
    /\ DeliveryDone
    /\ Len(delivered) = 2
    /\ delivered[1].raised
    /\ Len(log) > failure.exc


\* C11: when _hit_poller has handled an event of the descriptor, its registry
\* entry holds no reference to a closed or destroyed waiter, and no closed or
\* destroyed waiter has been signalled.
C11_Pruned ==
    ppc = "done" =>
        /\ \A i \in 1..Len(dmap) : ~IsGone(dmap[i])
        /\ \A w \in signalled : w.st = "live"


\* C12: the deadline of an operation with timeout T is start + T and stays so
\* through retries and wake-ups; the operation is not still pending later than
\* one poll granularity after the deadline; a timeout error reaches the caller
\* no earlier than the deadline and no later than one granularity after it;
\* and an operation that waited and was never woken ends with the timeout error.
Deadline == op.start + op.timeout
TimedOutResult == opc = "done" /\ result = Exc(socket_timeout)

C13_TimeoutSurfaced ==
    (opc = "done" /\ ohist.timedout /\ ohist.regerr = Nil) => result = Exc(socket_timeout)

\* C14: a failure of the underlying operation that is no would-block reaches
\* the caller as it is: same class, same args.
C14_FailureUnchanged ==
    (opc = "done" /\ ohist.failed # Nil) => result = Exc(ohist.failed)

\* C15: when the poller's register or unregister raised an OS error (an
\* EnvironmentError whose errno is known), the caller gets a socket.error.
IsOSError(e) == e.kind \in {"IOError", "OSError"} /\ e.code \in ErrorCodes

C15_RegistrationError ==
    (ohist.regerr # Nil /\ IsOSError(ohist.regerr)) =>
        /\ opc = "done"
        /\ result.tag = "exc"
        /\ result.exc.kind = "socket.error"
        /\ result.exc.code = ohist.regerr.code

\* unregister raised an OSError after a wake-up, and the caller got a socket.error
C15_Witness ==
    /\ opc = "done"
    /\ ohist.regerr # Nil
    /\ ohist.regerr.kind = "OSError"
    /\ ohist.wakes >= 1
    /\ result.tag = "exc" /\ result.exc.kind = "socket.error"


\* C16: a register() call with a mask inside the mask the descriptor is
\* already registered with leaves the registry as it was (same items, same
\* number of items) and returns a token of the registry, which unregister
\* accepts.
C16_Idempotent ==
    (plast # Nil /\ IsNoop(plast.before, plast.mask)) =>
        /\ plast.after = plast.before
        /\ Cardinality(plast.after) = Cardinality(plast.before)
        /\ plast.token \in Tokens(plast.after)

\* the last call registered a proper part of the registered mask, and the
\* token it returned has been unregistered since
C16_Witness ==
    /\ plast # Nil
    /\ IsNoop(plast.before, plast.mask)
    /\ plast.mask # Registered(plast.before)
    /\ plast.token \notin Tokens(registry)

\* C17: a task waiting in _wait_event whose token no other registration
\* shares keeps its interest registered whatever tokens are unregistered in
\* the meantime, and no readiness for its direction passes without waking it.
C17_OwnInterestOnly ==
    /\ \A w \in Waiters :
           (wt[w].pc = "waiting" /\ wt[w].token \notin shared) =>
               /\ wt[w].token \in Tokens(registry)
               /\ WaitMask(wt[w].write) \subseteq Registered(registry)
    /\ missed = {}

\* a task waiting to read was woken by a readiness after another
\* registration of the descriptor had been unregistered
C17_Witness ==
    \E w \in Waiters :
        /\ wt[w].pc = "woken" /\ ~wt[w].write
        /\ wt[w].rolled
        /\ wt[w].token \notin shared

\* C18: after a firing (set, then clear) no Signal is left set, and no wait()
\* returns at once on a firing that was over when it began: the task blocks
\* until a later firing or its time-out, and a firing with no task waiting
\* leaves nothing behind.
C18_EdgeTriggered ==
    /\ \A e \in {"r", "w"} : ~isset[e]
    /\ \A w \in Waiters : wt[w].pc # "atonce"

\* the Signal has fired (a task blocked on it then would have been woken),
\* and a task that began to wait on it since is blocked, nobody else waiting
C18_Witness ==
    \E w \in Waiters :
        /\ wt[w].pc = "waiting"
        /\ fired[WaitEvent(wt[w].write)]
        /\ \A v \in Waiters : v # w => wt[v].pc = "idle"


C20_RoundTrip ==
    (prior # Nil /\ mlast.fn = "disable" /\ mlast.flags = AllOn) => binds = prior

\* C21: schedule, schedule_at, schedule_in and schedule_to_top, called directly
\* or as decorators, return the caller's own target for every target and
\* every choice of args and kwargs.
C21_ReturnsTarget ==
    returned # Nil => returned.value = returned.target

\* C22: schedule_recurring with starting_at > 0: the first invocation of the
\* target runs from an element armed for the wake-time starting_at.
C22_BeginsAtStart ==
    (rec # Nil /\ rec.starting_at > 0 /\ invoked # <<>>) =>
        invoked[1].armed = rec.starting_at

\* C23: when _hit_poller has handled an event of the descriptor with mask M,
\* every live waiter in its registry entry is in socks exactly once, so that
\* its Signals are set once, and has been signalled for every event in M,
\* whatever other references the entry held.
Fires(id) == Cardinality({i \in 1..Len(socks) : socks[i].id = id})

C23_EveryLiveWaiter ==
    ppc = "done" =>
        \A i \in 1..Len(dmap) :
            dmap[i].st = "live" =>
                /\ Fires(dmap[i].id) = 1
                /\ \A e \in eventmap :
                       [id |-> dmap[i].id, st |-> "live", ev |-> e] \in signalled

\* C24: while an operation registers or waits, it does so for the direction
\* its last attempt indicated: for read-readiness after would-block-for-
\* reading, for write-readiness after would-block-for-writing.
C24_MatchingDirection ==
    opc \in {"register", "wait"} =>
        /\ ohist.want = "read" => ~wev.write
        /\ ohist.want = "write" => wev.write

\* C25: every item of the Poller's registry carries the token of a task that
\* is inside _wait_event: a task that has left its wait, however the wait
\* ended, has unregistered with the token its register returned; so when no
\* task is inside a wait the registry is empty.
InWait(w) == wt[w].pc # "idle"

C25_ScopedRegistration ==
    /\ \A i \in registry : \E w \in Waiters : InWait(w) /\ wt[w].token = i.token
    /\ (\A w \in Waiters : ~InWait(w)) => registry = {}

\* two registrations were made, a readiness has woken a task, and every task
\* has left its wait
C25_Witness ==
    /\ counter >= 2
    /\ fired["r"]
    /\ \A w \in Waiters : ~InWait(w)
    /\ registry = {}

\* C26: an operation whose attempt indicated would-block registers with the
\* poller only when time is left until its deadline: never with a remaining
\* time of exactly 0 (nor below); and with timeout None the deadline check
\* never fails.
C26_DeadlineCheck ==
    /\ (opc = "register" /\ ohist.want # "none" /\ op.timeout # NoTime) =>
           wev.timeout > 0
    /\ (op # Nil /\ op.timeout = NoTime) => ~ohist.timedout

\* C27: an operation registers with the poller and waits only after an
\* attempt of its non-blocking operation has indicated would-block, and after
\* a wake-up it goes back to the attempt.
C27_AttemptBeforeWait ==
    /\ opc \in {"register", "wait", "unregister"} => ohist.want # "none"
    /\ opc \in {"register", "wait", "unregister"} => wev.cont \in {"attempt", "connect_ex"}

\* a step of the mainloop that runs _check_paused: the refill at the top of
\* the loop, or an iteration of the idle loop when timed_paused is not empty
CheckStep ==
    /\ time' = time
    /\ \/ pc = "top" /\ to_run = <<>>
       \/ pc = "idle" /\ timed_paused # <<>>
\* Due is the set of positions of timed_paused that the check is to promote:
\* they are in to_run afterwards, in ascending wake-time order, and the
\* elements at the other positions are still in timed_paused
Promotes(Due) ==
    /\ \A i \in Due :
           /\ timed_paused[i][2].id \in Ids(to_run')
           /\ timed_paused[i][2].id \notin TimedIds(timed_paused')
    /\ \A i \in (1..Len(timed_paused)) \ Due :
           /\ timed_paused[i][2].id \in TimedIds(timed_paused')
           /\ timed_paused[i][2].id \notin Ids(to_run')
    /\ \A i \in Due, j \in Due :
           timed_paused[i][1] < timed_paused[j][1] =>
               Pos(to_run', timed_paused[i][2].id) < Pos(to_run', timed_paused[j][2].id)

\* C28 as claimed: each check of timed_paused at clock value now moves every
\* element with wake-time <= now to to_run, in ascending wake-time order, and
\* leaves every element with wake-time > now.
C28_PromotesDue ==
    [][CheckStep =>
         Promotes({i \in 1..Len(timed_paused) : timed_paused[i][1] <= time})]_vars

\* C28 as amended: each check moves every element with wake-time < now to
\* to_run, in ascending wake-time order, and leaves every element with
\* wake-time >= now, the elements with wake-time exactly now included.
C28_PromotesPassed ==
    [][CheckStep =>
         Promotes({i \in 1..Len(timed_paused) : timed_paused[i][1] < time})]_vars

\* an element was promoted by a check made at the very wake-time of an older
\* element, which is still in timed_paused
C28_Witness ==
    \E a \in 1..Len(calls), b \in 1..Len(calls) :
        /\ b < a
        /\ IsTimed(a) /\ IsTimed(b)
        /\ calls[a].at + 1 = calls[b].at
        /\ calls[b].at = time
        /\ Promoted(a)
        /\ b \in TimedIds(timed_paused)

\* C29: each greenlet is at most once in to_run, paused and timed_paused taken
\* together, and a greenlet blocked in a Signal's wait is in none of them.
Placements(g) ==
    Cardinality({i \in 1..Len(to_run) : to_run[i].g = g})
    + Cardinality({i \in 1..Len(paused) : paused[i].g = g})
    + Cardinality({i \in 1..Len(timed_paused) : timed_paused[i][2].g = g})

C29_SinglePlacement ==
    \A g \in Greenlets :
        /\ Placements(g) <= 1
        /\ g \in waiting => Placements(g) = 0

\* C30: with no schedule_to_top, and tasks that give up control, every
\* element enqueued by schedule() or pause() is dispatched in the end, and
\* so is every timed element once the clock has passed its wake-time.
Due(id) == BySchedule(id) \/ (IsTimed(id) /\ calls[id].at < time)

C30_NoStarvation ==
    \A id \in 1..MaxCalls : Due(id) ~> InLog(id)

\* an element enqueued behind another one and a timed element whose
\* wake-time was in the future have both been dispatched
C30_Witness ==
    \E a \in 1..Len(calls), b \in 1..Len(calls) :
        /\ BySchedule(a) /\ calls[a].ahead # {} /\ InLog(a)
        /\ IsTimed(b) /\ calls[b].fut /\ calls[b].at >= 1 /\ InLog(b)

\* C31: a refill of the empty to_run puts the greenlets woken by the poll
\* first (each once, the awoken set empty afterwards), then the expired timed
\* elements in the order of timed_paused (ascending wake-time), then the
\* elements of paused in their call order; the idle loop's polls leave the
\* awoken set empty too; to_run keeps that order, and the mainloop dispatches
\* from its head, so an expired timed element is dispatched before an
\* element enqueued by schedule(), whichever call came first.
RefillStep == pc = "top" /\ to_run = <<>> /\ time' = time
IdleStep == pc = "idle" /\ time' = time
DispatchStep == pc = "top" /\ to_run # <<>> /\ time' = time

RefillOrder ==
    LET k == Len(timed_paused) - Len(timed_paused')
        p == Len(paused)
        e == Len(to_run') - k - p
    IN /\ e >= 0 /\ k >= 0
       /\ \A i \in 1..e :
              /\ to_run'[i].id > Len(calls)
              /\ calls'[to_run'[i].id].via = "event"
       /\ \A i \in 1..e, j \in 1..e : i # j => to_run'[i].g # to_run'[j].g
       /\ awoken_from_events \subseteq {to_run'[i].g : i \in 1..e}
       /\ awoken_from_events' = {}
       /\ \A i \in 1..k :
              /\ to_run'[e + i] = timed_paused[i][2]
              /\ timed_paused[i][1] < time
       /\ \A i \in 1..k, j \in 1..k : i < j => timed_paused[i][1] <= timed_paused[j][1]
       /\ \A i \in 1..p : to_run'[e + k + i] = paused[i]
       /\ \A i \in 1..p, j \in 1..p : i < j => paused[i].id < paused[j].id
       /\ paused' = <<>>

\* 0: woken by an event, 1: timed, 2: enqueued by schedule() or pause()
Rank(id) ==
    IF calls[id].via = "event" THEN 0
    ELSE IF IsTimed(id) THEN 1
    ELSE 2
BatchOrder ==
    \A i \in 1..Len(to_run), j \in 1..Len(to_run) :
        Rank(to_run[i].id) < Rank(to_run[j].id) => i < j

C31_RefillOrder ==
    /\ []BatchOrder
    /\ [][/\ RefillStep => RefillOrder
          /\ IdleStep => awoken_from_events' = {}
          /\ DispatchStep => (log' = Append(log, Head(to_run).id) /\ to_run' = Tail(to_run))]_vars

\* schedule() was called before the timed call; one refill took a woken
\* greenlet, the expired timed element and the scheduled one, and they were
\* dispatched in that order
C31_Witness ==
    \E a \in 1..Len(calls), b \in 1..Len(calls), c \in 1..Len(calls) :
        /\ calls[c].via = "event"
        /\ IsTimed(a)
        /\ calls[b].via = "schedule"
        /\ b < a
        /\ InLog(a) /\ InLog(b) /\ InLog(c)
        /\ calls[c].epoch = LogPos(c) - 1
        /\ LogPos(a) = LogPos(c) + 1
        /\ LogPos(b) = LogPos(a) + 1

====
